---- MODULE Spec2Model ----
(***************************************************************************)
(* Piecewise-constant (step) functions: the overlay builder                *)
(* (SmallPiecewiseBuilder::add_overlay / build), point evaluation          *)
(* (SmallPiecewise::value_at) and the merge-based pointwise product        *)
(* (Mul<SmallPiecewise> for SmallPiecewise), over the interval algebra of  *)
(* the intervals_general crate.                                            *)
(***************************************************************************)
EXTENDS Integers, Sequences, FiniteSets, TLC

(***************************************************************************)
(* Bounds of the exploration.                                              *)
(***************************************************************************)
\* add_overlay calls in one run of the multiplication pipeline, over both
\* builders together
MaxOverlays == 3
\* add_overlay calls on the single builder of the builder specification
MaxHistory == 3
\* interval endpoints; the odd points between and around them are interior
\* points of the domain, so that an open interval (0,2) is inhabited
Endpoints == {0, 2}
\* the domain points value_at is probed at
Points == -1 .. 3

(***************************************************************************)
(* Interval algebra (intervals_general::interval::Interval<T>).            *)
(* An interval is a record [kind, left, right]; a field the variant does   *)
(* not have is 0.                                                          *)
(***************************************************************************)
Empty == [kind |-> "Empty", left |-> 0, right |-> 0]

Unbounded == [kind |-> "Unbounded", left |-> 0, right |-> 0]

Singleton(at) == [kind |-> "Singleton", left |-> at, right |-> at]

Closed(l, r) == [kind |-> "Closed", left |-> l, right |-> r]

Open(l, r) == [kind |-> "Open", left |-> l, right |-> r]

LeftHalfOpen(l, r) == [kind |-> "LeftHalfOpen", left |-> l, right |-> r]

RightHalfOpen(l, r) == [kind |-> "RightHalfOpen", left |-> l, right |-> r]

UnboundedClosedRight(r) == [kind |-> "UnboundedClosedRight", left |-> 0, right |-> r]

UnboundedOpenRight(r) == [kind |-> "UnboundedOpenRight", left |-> 0, right |-> r]

UnboundedClosedLeft(l) == [kind |-> "UnboundedClosedLeft", left |-> l, right |-> 0]

UnboundedOpenLeft(l) == [kind |-> "UnboundedOpenLeft", left |-> l, right |-> 0]

\* Every interval value over the endpoints (a BoundPair has left < right).
Intervals ==
    {Empty, Unbounded}
    \cup {Singleton(a) : a \in Endpoints}
    \cup {UnboundedClosedRight(a) : a \in Endpoints}
    \cup {UnboundedOpenRight(a) : a \in Endpoints}
    \cup {UnboundedClosedLeft(a) : a \in Endpoints}
    \cup {UnboundedOpenLeft(a) : a \in Endpoints}
    \cup UNION {{Closed(p[1], p[2]), Open(p[1], p[2]),
                 LeftHalfOpen(p[1], p[2]), RightHalfOpen(p[1], p[2])} :
                p \in {q \in Endpoints \X Endpoints : q[1] < q[2]}}

\* Bound<T>: None | Unbounded | Closed(v) | Open(v)
BoundNone == [b |-> "None", v |-> 0]

BoundUnbounded == [b |-> "Unbounded", v |-> 0]

BoundClosed(v) == [b |-> "Closed", v |-> v]

BoundOpen(v) == [b |-> "Open", v |-> v]

left_bound(i) ==
    CASE i.kind = "Empty" -> BoundNone
      [] i.kind \in {"Unbounded", "UnboundedClosedRight", "UnboundedOpenRight"} -> BoundUnbounded
      [] i.kind \in {"Closed", "RightHalfOpen", "UnboundedClosedLeft", "Singleton"} -> BoundClosed(i.left)
      [] i.kind \in {"Open", "LeftHalfOpen", "UnboundedOpenLeft"} -> BoundOpen(i.left)

right_bound(i) ==
    CASE i.kind = "Empty" -> BoundNone
      [] i.kind \in {"Unbounded", "UnboundedClosedLeft", "UnboundedOpenLeft"} -> BoundUnbounded
      [] i.kind \in {"Closed", "LeftHalfOpen", "UnboundedClosedRight", "Singleton"} -> BoundClosed(i.right)
      [] i.kind \in {"Open", "RightHalfOpen", "UnboundedOpenRight"} -> BoundOpen(i.right)

\* Option<Ordering>: "None" | "Less" | "Equal" | "Greater"
cmp_values(a, b) == IF a < b THEN "Less" ELSE IF a > b THEN "Greater" ELSE "Equal"

left_partial_cmp(s, o) ==
    LET sb == left_bound(s)
        ob == left_bound(o)
    IN  CASE sb.b = "None" \/ ob.b = "None" -> "None"
          [] sb.b = "Unbounded" /\ ob.b = "Unbounded" -> "Equal"
          [] sb.b = "Unbounded" /\ ob.b \notin {"None", "Unbounded"} -> "Less"
          [] sb.b \notin {"None", "Unbounded"} /\ ob.b = "Unbounded" -> "Greater"
          [] sb.b = "Closed" /\ ob.b = "Closed" -> cmp_values(sb.v, ob.v)
          [] sb.b = "Open" /\ ob.b = "Open" -> cmp_values(sb.v, ob.v)
          [] sb.b = "Closed" /\ ob.b = "Open" -> IF sb.v <= ob.v THEN "Less" ELSE "Greater"
          [] sb.b = "Open" /\ ob.b = "Closed" -> IF sb.v < ob.v THEN "Less" ELSE "Greater"

right_partial_cmp(s, o) ==
    LET sb == right_bound(s)
        ob == right_bound(o)
    IN  CASE sb.b = "None" \/ ob.b = "None" -> "None"
          [] sb.b = "Unbounded" /\ ob.b = "Unbounded" -> "Equal"
          [] sb.b = "Unbounded" /\ ob.b \notin {"None", "Unbounded"} -> "Greater"
          [] sb.b \notin {"None", "Unbounded"} /\ ob.b = "Unbounded" -> "Less"
          [] sb.b = "Closed" /\ ob.b = "Closed" -> cmp_values(sb.v, ob.v)
          [] sb.b = "Open" /\ ob.b = "Open" -> cmp_values(sb.v, ob.v)
          [] sb.b = "Closed" /\ ob.b = "Open" -> IF sb.v < ob.v THEN "Less" ELSE "Greater"
          [] sb.b = "Open" /\ ob.b = "Closed" -> IF sb.v <= ob.v THEN "Less" ELSE "Greater"

\* Interval::contains: does s contain every point of o
contains(s, o) ==
    LET sl == left_bound(s)
        ol == left_bound(o)
        sr == right_bound(s)
        or == right_bound(o)
        left_contained ==
            CASE sl.b = "None" -> FALSE
              [] sl.b # "None" /\ ol.b = "None" -> TRUE
              [] sl.b = "Unbounded" /\ ol.b # "None" -> TRUE
              [] sl.b \in {"Closed", "Open"} /\ ol.b = "Unbounded" -> FALSE
              [] sl.b = "Open" /\ ol.b = "Closed" -> sl.v < ol.v
              [] OTHER -> sl.v <= ol.v
        right_contained ==
            CASE sr.b = "None" -> FALSE
              [] sr.b # "None" /\ or.b = "None" -> TRUE
              [] sr.b = "Unbounded" /\ or.b # "None" -> TRUE
              [] sr.b \in {"Closed", "Open"} /\ or.b = "Unbounded" -> FALSE
              [] sr.b = "Open" /\ or.b = "Closed" -> sr.v > or.v
              [] OTHER -> sr.v >= or.v
    IN  left_contained /\ right_contained

\* Interval::intersect: the greater left bound and the lesser right bound,
\* Empty when they cross or when either operand is Empty
intersect(s, o) ==
    LET lc == left_partial_cmp(s, o)
        rc == right_partial_cmp(s, o)
        lb == IF lc # "Less" THEN left_bound(s) ELSE left_bound(o)
        rb == IF rc # "Greater" THEN right_bound(s) ELSE right_bound(o)
    IN  IF lc = "None" \/ rc = "None" THEN Empty
        ELSE CASE lb.b = "Closed" /\ rb.b = "Closed" ->
                    IF lb.v > rb.v THEN Empty
                    ELSE IF lb.v = rb.v THEN Singleton(lb.v)
                    ELSE Closed(lb.v, rb.v)
               [] lb.b = "Open" /\ rb.b = "Open" ->
                    IF lb.v >= rb.v THEN Empty ELSE Open(lb.v, rb.v)
               [] lb.b = "Open" /\ rb.b = "Closed" ->
                    IF lb.v >= rb.v THEN Empty ELSE LeftHalfOpen(lb.v, rb.v)
               [] lb.b = "Closed" /\ rb.b = "Open" ->
                    IF lb.v >= rb.v THEN Empty ELSE RightHalfOpen(lb.v, rb.v)
               [] lb.b = "Unbounded" /\ rb.b = "Closed" -> UnboundedClosedRight(rb.v)
               [] lb.b = "Unbounded" /\ rb.b = "Open" -> UnboundedOpenRight(rb.v)
               [] lb.b = "Closed" /\ rb.b = "Unbounded" -> UnboundedClosedLeft(lb.v)
               [] lb.b = "Open" /\ rb.b = "Unbounded" -> UnboundedOpenLeft(lb.v)
               [] lb.b = "Unbounded" /\ rb.b = "Unbounded" -> Unbounded

\* Interval::complement: the 1 or 2 intervals covering what i does not
complement(i) ==
    CASE i.kind = "Closed" -> <<UnboundedOpenRight(i.left), UnboundedOpenLeft(i.right)>>
      [] i.kind = "Open" -> <<UnboundedClosedRight(i.left), UnboundedClosedLeft(i.right)>>
      [] i.kind = "LeftHalfOpen" -> <<UnboundedClosedRight(i.left), UnboundedOpenLeft(i.right)>>
      [] i.kind = "RightHalfOpen" -> <<UnboundedOpenRight(i.left), UnboundedClosedLeft(i.right)>>
      [] i.kind = "UnboundedClosedRight" -> <<UnboundedOpenLeft(i.right)>>
      [] i.kind = "UnboundedOpenRight" -> <<UnboundedClosedLeft(i.right)>>
      [] i.kind = "UnboundedClosedLeft" -> <<UnboundedOpenRight(i.left)>>
      [] i.kind = "UnboundedOpenLeft" -> <<UnboundedClosedRight(i.left)>>
      [] i.kind = "Singleton" -> <<UnboundedOpenRight(i.left), UnboundedOpenLeft(i.left)>>
      [] i.kind = "Unbounded" -> <<Empty>>
      [] i.kind = "Empty" -> <<Unbounded>>

(***************************************************************************)
(* ValueOverInterval, SmallPiecewise, SmallPiecewiseBuilder.               *)
(***************************************************************************)
\* ValueOverInterval::new
ValueOverInterval(interval, value) == [interval |-> interval, value |-> value]

\* Option<T>: None is the empty sequence, Some(x) the sequence of x alone
None == <<>>

Some(x) == <<x>>

\* SmallPiecewise::value_at: the value of the first stored segment whose
\* interval contains Singleton{at}
value_at(values_over_intervals, at) ==
    LET hits == {k \in 1 .. Len(values_over_intervals) :
                    contains(values_over_intervals[k].interval, Singleton(at))}
    IN  IF hits = {} THEN None
        ELSE Some(values_over_intervals[CHOOSE k \in hits : \A m \in hits : k <= m].value)

\* Trimmed without the discard of Empty intersections
Trimmed_keep_empty(self_voi, pieces) ==
    [k \in 1 .. Len(pieces) |->
        ValueOverInterval(intersect(self_voi.interval, pieces[k]), self_voi.value)]

\* One existing segment against every complement piece, Empty results dropped
\* (the inner loop of add_overlay's iproduct!)
Trimmed(self_voi, pieces) ==
    LET all == [k \in 1 .. Len(pieces) |->
                   ValueOverInterval(intersect(self_voi.interval, pieces[k]), self_voi.value)]
    IN  SelectSeq(all, LAMBDA voi : voi.interval # Empty)

RECURSIVE TrimAll(_, _)
TrimAll(values_over_intervals, pieces) ==
    IF values_over_intervals = <<>> THEN <<>>
    ELSE Trimmed(Head(values_over_intervals), pieces)
            \o TrimAll(Tail(values_over_intervals), pieces)

\* add_overlay without the trimming of the existing segments
add_overlay_untrimmed(values_over_intervals, element) ==
    Append(values_over_intervals, element)

\* SmallPiecewiseBuilder::add_overlay
add_overlay(values_over_intervals, element) ==
    Append(TrimAll(values_over_intervals, complement(element.interval)), element)

\* SmallPiecewiseBuilder::build
build(values_over_intervals) == values_over_intervals

(***************************************************************************)
(* The builder specification: one builder, any overlays, then build().     *)
(***************************************************************************)
VARIABLES
    builder,    \* the builder's values_over_intervals
    history,    \* the segments overlaid so far, oldest first
    previous,   \* the builder's values_over_intervals before the latest overlay
    built       \* Some(the step function build() returned), None before build()

bvars == <<builder, history, previous, built>>

VARIABLES
    left_builder,   \* values_over_intervals of the first builder
    right_builder,  \* values_over_intervals of the second builder
    overlays,       \* add_overlay calls made on <<first, second>> builder
    piecewise_1,            \* Some(first builder's build()), None before
    piecewise_2,            \* Some(second builder's build()), None before
    trace,          \* the closure calls of piecewise_1 * piecewise_2, <<>> before
    product,        \* Some(piecewise_1 * piecewise_2), None before
    swapped         \* Some(piecewise_2 * piecewise_1), None before

vars == <<left_builder, right_builder, overlays, piecewise_1, piecewise_2, trace, product, swapped>>

\* SmallPiecewiseBuilder::new
BuilderNew ==
    /\ builder = <<>>
    /\ history = <<>>
    /\ previous = <<>>
    /\ built = None

\* Two new builders, nothing built or multiplied
PipelineNew ==
    /\ left_builder = <<>>
    /\ right_builder = <<>>
    /\ overlays = <<0, 0>>
    /\ piecewise_1 = None
    /\ piecewise_2 = None
    /\ trace = <<>>
    /\ product = None
    /\ swapped = None

BuilderInit == BuilderNew /\ PipelineNew

\* The value the k-th overlay of a builder carries. add_overlay only copies
\* values and mul only multiplies them, so the overlays of one builder carry
\* pairwise distinct values, and a product of a left and a right value
\* names both factors.
LeftValue(k) == k + 1

RightValue(k) == 2 * k + 3

\* The segments the next overlay may be: any interval with a fresh value, or
\* the segment of the latest overlay once more.
Offered(overlaid) ==
    {ValueOverInterval(interval, LeftValue(Len(overlaid) + 1)) : interval \in Intervals}
    \cup (IF overlaid = <<>> THEN {} ELSE {overlaid[Len(overlaid)]})

AddOverlay(element) ==
    /\ built = None
    /\ Len(history) < MaxHistory
    /\ builder' = add_overlay(builder, element)
    /\ history' = Append(history, element)
    /\ previous' = builder
    /\ UNCHANGED <<built, vars>>

Build ==
    /\ built = None
    /\ built' = Some(build(builder))
    /\ UNCHANGED <<builder, history, previous, vars>>

BuilderNext ==
    \/ \E element \in Offered(history) : AddOverlay(element)
    \/ Build

SpecBuilder == BuilderInit /\ [][BuilderNext]_<<bvars, vars>>

(***************************************************************************)
(* Mul<SmallPiecewise> for SmallPiecewise: the merge pass.                 *)
(***************************************************************************)
\* the comparator handed to merge_join_by: right_partial_cmp, Less when
\* the two intervals are incomparable
merge_cmp(a, b) ==
    LET cmp == right_partial_cmp(a.interval, b.interval)
    IN  IF cmp # "None" THEN cmp ELSE "Less"

\* itertools merge_join_by: which of Left / Right / Both comes next
next_arm(left, right) ==
    IF right = <<>> THEN "Left"
    ELSE IF left = <<>> THEN "Right"
    ELSE CASE merge_cmp(Head(left), Head(right)) = "Less" -> "Left"
           [] merge_cmp(Head(left), Head(right)) = "Greater" -> "Right"
           [] merge_cmp(Head(left), Head(right)) = "Equal" -> "Both"

\* candidate without the intersection with the other operand's interval
candidate_unclipped(l, r) == ValueOverInterval(l.interval, l.value * r.value)

\* ValueOverInterval::new(l.interval.intersect(&r.interval), l.value * r.value)
candidate(l, r) == ValueOverInterval(intersect(l.interval, r.interval), l.value * r.value)

\* first without the right-induced candidate: always the left-induced one
first_left_only(new_right_induced, new_left_induced) == new_left_induced

\* the Both arm's choice between the two induced candidates
first(new_right_induced, new_left_induced) ==
    IF new_right_induced = None \/ new_right_induced[1].interval = Empty
    THEN new_left_induced
    ELSE new_right_induced

\* prior_intervals as each arm leaves it
left_after(new_left, prior_intervals) == <<Some(new_left), prior_intervals[2]>>

right_after(new_right, prior_intervals) == <<prior_intervals[1], Some(new_right)>>

both_after(new_left, new_right) == <<Some(new_left), Some(new_right)>>

\* left_arm yielding the new left segment unclipped by the pending right one
left_arm_unclipped(new_left, prior_intervals) ==
    [arm |-> "Left",
     new_left |-> Some(new_left),
     new_right |-> None,
     prior |-> prior_intervals,
     emitted |-> <<IF prior_intervals[2] # None
                   THEN Some(ValueOverInterval(new_left.interval,
                                               new_left.value * prior_intervals[2][1].value))
                   ELSE None,
                   None>>,
     after |-> left_after(new_left, prior_intervals)]

\* right_arm passing the new right segment through when no left is pending
right_arm_passthrough(new_right, prior_intervals) ==
    [arm |-> "Right",
     new_left |-> None,
     new_right |-> Some(new_right),
     prior |-> prior_intervals,
     emitted |-> <<IF prior_intervals[1] # None
                   THEN Some(candidate(prior_intervals[1][1], new_right))
                   ELSE Some(new_right),
                   None>>,
     after |-> right_after(new_right, prior_intervals)]

\* One closure call of the flat_map: the two Options it yields and the
\* prior_intervals it leaves, for the arm merge_join_by produced.
left_arm(new_left, prior_intervals) ==
    [arm |-> "Left",
     new_left |-> Some(new_left),
     new_right |-> None,
     prior |-> prior_intervals,
     emitted |-> <<IF prior_intervals[2] # None
                   THEN Some(candidate(new_left, prior_intervals[2][1]))
                   ELSE None,
                   None>>,
     after |-> left_after(new_left, prior_intervals)]

right_arm(new_right, prior_intervals) ==
    [arm |-> "Right",
     new_left |-> None,
     new_right |-> Some(new_right),
     prior |-> prior_intervals,
     emitted |-> <<IF prior_intervals[1] # None
                   THEN Some(candidate(prior_intervals[1][1], new_right))
                   ELSE None,
                   None>>,
     after |-> right_after(new_right, prior_intervals)]

both_arm(new_left, new_right, prior_intervals) ==
    LET new_right_induced ==
            IF prior_intervals[1] # None
            THEN Some(candidate(prior_intervals[1][1], new_right))
            ELSE None
        new_left_induced ==
            IF prior_intervals[2] # None
            THEN Some(candidate(new_left, prior_intervals[2][1]))
            ELSE None
    IN  [arm |-> "Both",
         new_left |-> Some(new_left),
         new_right |-> Some(new_right),
         prior |-> prior_intervals,
         emitted |-> <<first(new_right_induced, new_left_induced),
                       Some(candidate(new_left, new_right))>>,
         after |-> both_after(new_left, new_right)]

\* The whole merge: the closure calls in order, each with what it yielded.
RECURSIVE merge_steps(_, _, _)
merge_steps(left, right, prior_intervals) ==
    IF left = <<>> /\ right = <<>> THEN <<>>
    ELSE CASE next_arm(left, right) = "Left" ->
                <<left_arm(Head(left), prior_intervals)>>
                    \o merge_steps(Tail(left), right,
                                   left_after(Head(left), prior_intervals))
           [] next_arm(left, right) = "Right" ->
                <<right_arm(Head(right), prior_intervals)>>
                    \o merge_steps(left, Tail(right),
                                   right_after(Head(right), prior_intervals))
           [] next_arm(left, right) = "Both" ->
                <<both_arm(Head(left), Head(right), prior_intervals)>>
                    \o merge_steps(Tail(left), Tail(right),
                                   both_after(Head(left), Head(right)))

\* .filter_map(|x| x): the Some items, unwrapped, in order
RECURSIVE filter_map(_)
filter_map(options) ==
    IF options = <<>> THEN <<>> ELSE Head(options) \o filter_map(Tail(options))

\* .flat_map(...): the items every closure call yielded, in order
RECURSIVE flat_map(_)
flat_map(calls) ==
    IF calls = <<>> THEN <<>> ELSE Head(calls).emitted \o flat_map(Tail(calls))

\* self * rhs
mul(self, rhs) == filter_map(flat_map(merge_steps(self, rhs, <<None, None>>)))

(***************************************************************************)
(* The multiplication pipeline: two builders, built in turn, and the       *)
(* product of the two step functions, in both operand orders.              *)
(***************************************************************************)
Init == PipelineNew /\ BuilderNew

AddOverlayLeft(interval) ==
    /\ piecewise_1 = None
    /\ overlays[1] + overlays[2] < MaxOverlays
    /\ left_builder' = add_overlay(left_builder,
                                   ValueOverInterval(interval, LeftValue(overlays[1] + 1)))
    /\ overlays' = <<overlays[1] + 1, overlays[2]>>
    /\ UNCHANGED <<right_builder, piecewise_1, piecewise_2, trace, product, swapped, bvars>>

BuildLeft ==
    /\ piecewise_1 = None
    /\ piecewise_1' = Some(build(left_builder))
    /\ UNCHANGED <<left_builder, right_builder, overlays, piecewise_2, trace, product, swapped, bvars>>

AddOverlayRight(interval) ==
    /\ piecewise_1 # None
    /\ piecewise_2 = None
    /\ overlays[1] + overlays[2] < MaxOverlays
    /\ right_builder' = add_overlay(right_builder,
                                    ValueOverInterval(interval, RightValue(overlays[2] + 1)))
    /\ overlays' = <<overlays[1], overlays[2] + 1>>
    /\ UNCHANGED <<left_builder, piecewise_1, piecewise_2, trace, product, swapped, bvars>>

BuildRight ==
    /\ piecewise_1 # None
    /\ piecewise_2 = None
    /\ piecewise_2' = Some(build(right_builder))
    /\ UNCHANGED <<left_builder, right_builder, overlays, piecewise_1, trace, product, swapped, bvars>>

\* the product of clones of piecewise_1 and piecewise_2, in that order
Multiply ==
    /\ piecewise_1 # None
    /\ piecewise_2 # None
    /\ product = None
    /\ LET calls == merge_steps(piecewise_1[1], piecewise_2[1], <<None, None>>)
       IN  /\ trace' = calls
           /\ product' = Some(filter_map(flat_map(calls)))
    /\ UNCHANGED <<left_builder, right_builder, overlays, piecewise_1, piecewise_2, swapped, bvars>>

\* the product in the other operand order, once the first is taken
MultiplySwapped ==
    /\ product # None
    /\ swapped = None
    /\ swapped' = Some(mul(piecewise_2[1], piecewise_1[1]))
    /\ UNCHANGED <<left_builder, right_builder, overlays, piecewise_1, piecewise_2, trace, product, bvars>>

Next ==
    \/ \E interval \in Intervals : AddOverlayLeft(interval)
    \/ BuildLeft
    \/ \E interval \in Intervals : AddOverlayRight(interval)
    \/ BuildRight
    \/ Multiply
    \/ MultiplySwapped

Spec == Init /\ [][Next]_<<vars, bvars>>

(***************************************************************************)
(* Properties of the builder (checked under SpecBuilder).                  *)
(***************************************************************************)
\* The value of the latest overlaid segment whose interval contains the point
Newest(overlaid, at) ==
    LET hits == {k \in 1 .. Len(overlaid) : contains(overlaid[k].interval, Singleton(at))}
    IN  IF hits = {} THEN None
        ELSE Some(overlaid[CHOOSE k \in hits : \A m \in hits : m <= k].value)

\* C2: newest overlay wins. After any overlays, the builder (and the step
\* function build() returns) evaluates at every point to the value of the
\* latest overlaid segment containing the point, absent when none does.
C2_NewestWins ==
    /\ \A at \in Points : value_at(builder, at) = Newest(history, at)
    /\ built # None => \A at \in Points : value_at(built[1], at) = Newest(history, at)

\* Three overlays were built; at one point an older and a newer segment
\* overlap with different values, at another only the oldest is defined.
C2_Witness ==
    /\ built # None
    /\ Len(history) = 3
    /\ \E at \in Points :
          /\ contains(history[1].interval, Singleton(at))
          /\ contains(history[3].interval, Singleton(at))
          /\ history[1].value # history[3].value
          /\ value_at(built[1], at) = Some(history[3].value)
    /\ \E at \in Points :
          /\ contains(history[1].interval, Singleton(at))
          /\ ~contains(history[2].interval, Singleton(at))
          /\ ~contains(history[3].interval, Singleton(at))
          /\ value_at(built[1], at) = Some(history[1].value)

\* C4: overlay is idempotent. Overlaying the segment that was just overlaid
\* leaves the stored segment list, and the value at every point, as they
\* were after the first of the two overlays.
C4_Idempotent ==
    (Len(history) >= 2 /\ history[Len(history)] = history[Len(history) - 1])
        => /\ builder = previous
           /\ \A at \in Points : value_at(builder, at) = value_at(previous, at)

\* The same segment was overlaid twice in a row onto a builder whose earlier
\* segment it split in two.
C4_Witness ==
    /\ Len(history) = 3
    /\ history[3] = history[2]
    /\ history[1] # history[2]
    /\ Len(builder) = 3

\* by increasing right endpoint: no earlier segment's right end is greater
Sorted(values_over_intervals) ==
    \A i, j \in 1 .. Len(values_over_intervals) :
        i < j => right_partial_cmp(values_over_intervals[i].interval,
                                   values_over_intervals[j].interval) # "Greater"

NoDuplicates(values_over_intervals) ==
    \A i, j \in 1 .. Len(values_over_intervals) :
        i < j => values_over_intervals[i] # values_over_intervals[j]

\* C5: after every add_overlay the builder's segments are sorted by increasing
\* right endpoint and hold no duplicate, so build() yields sorted segments.
C5_SortedNoDuplicates ==
    /\ Sorted(builder) /\ NoDuplicates(builder)
    /\ built # None => Sorted(built[1])

(***************************************************************************)
(* Properties of the product (checked under Spec).                         *)
(***************************************************************************)
\* what the product must evaluate to at a point
Pointwise(l, r, at) ==
    IF value_at(l, at) # None /\ value_at(r, at) # None
    THEN Some(value_at(l, at)[1] * value_at(r, at)[1])
    ELSE None

\* C1: the product is pointwise. At every point (L*R).value_at is
\* L.value_at * R.value_at when both are present, and absent otherwise.
C1_MulPointwise ==
    product # None =>
        \A at \in Points :
            value_at(product[1], at) = Pointwise(piecewise_1[1], piecewise_2[1], at)

Disjoint(values_over_intervals) ==
    \A i, j \in 1 .. Len(values_over_intervals) :
        i < j => intersect(values_over_intervals[i].interval,
                           values_over_intervals[j].interval) = Empty

\* C3: disjointness. The segments of every builder, of every built step
\* function and of every product are pairwise disjoint.
C3_Disjoint ==
    /\ Disjoint(left_builder) /\ Disjoint(right_builder)
    /\ piecewise_1 # None => Disjoint(piecewise_1[1])
    /\ piecewise_2 # None => Disjoint(piecewise_2[1])
    /\ product # None => Disjoint(product[1])
    /\ swapped # None => Disjoint(swapped[1])

\* An operand of three segments was multiplied and the product holds several
\* segments, none Empty.
C3_Witness ==
    /\ product # None
    /\ Len(piecewise_1[1]) >= 3
    /\ Len(piecewise_2[1]) >= 1
    /\ Len(product[1]) >= 2
    /\ \A k \in 1 .. Len(product[1]) : product[1][k].interval # Empty

\* C6: no segment of a product has the Empty interval.
C6_NoEmptyInProduct ==
    product # None => \A k \in 1 .. Len(product[1]) : product[1][k].interval # Empty

\* C7: a product with an operand that has no segments has no segments, and
\* is absent at every point.
C7_EmptyOperand ==
    /\ (product # None /\ (piecewise_1[1] = <<>> \/ piecewise_2[1] = <<>>))
          => product[1] = <<>> /\ \A at \in Points : value_at(product[1], at) = None
    /\ (swapped # None /\ (piecewise_1[1] = <<>> \/ piecewise_2[1] = <<>>))
          => swapped[1] = <<>> /\ \A at \in Points : value_at(swapped[1], at) = None

\* An empty step function was multiplied, on the left and on the right, by
\* one with several segments.
C7_Witness ==
    /\ product # None
    /\ swapped # None
    /\ piecewise_1[1] = <<>>
    /\ Len(piecewise_2[1]) >= 2

\* C8: the product is defined only where both operands are. Wherever
\* (L*R).value_at is present, L.value_at and R.value_at are present and
\* their product is its value.
C8_DefinedOnlyWhereBoth ==
    product # None =>
        \A at \in Points :
            value_at(product[1], at) # None =>
                /\ value_at(piecewise_1[1], at) # None
                /\ value_at(piecewise_2[1], at) # None
                /\ value_at(product[1], at) = Pointwise(piecewise_1[1], piecewise_2[1], at)

\* The product is present with two different values, and absent at a point
\* where exactly one operand is present.
C8_Witness ==
    /\ product # None
    /\ \E a, b \in Points :
          /\ value_at(product[1], a) # None
          /\ value_at(product[1], b) # None
          /\ value_at(product[1], a) # value_at(product[1], b)
    /\ \E at \in Points :
          /\ value_at(product[1], at) = None
          /\ value_at(piecewise_1[1], at) # None
          /\ value_at(piecewise_2[1], at) = None

\* the candidate of a pending (or new) left segment and a new (or pending)
\* right segment, as the claim words it
Overlap(l, r) == [interval |-> intersect(l.interval, r.interval), value |-> l.value * r.value]

C10_Commutes ==
    (product # None /\ swapped # None) =>
        \A at \in Points : value_at(product[1], at) = value_at(swapped[1], at)
====
